---------------------------- MODULE Spec2Model ----------------------------
(***************************************************************************)
(* A model of lcm-log2smat: the conversion of an LCM event log into a      *)
(* nested dictionary of per-channel columns.                                *)
(*                                                                         *)
(*   - the command line front end of lcm-log2smat.py (option parsing,      *)
(*     usage(), exit status);                                              *)
(*   - the record loop of pylcm.parse_lcm (ignored-channel memo, channel   *)
(*     filter, fingerprint lookup, decode, message counter, startTime);    *)
(*   - pylcm.append_msg_to_dict and pylcm.msg_to_dict, the recursive       *)
(*     aggregation of one decoded message into the store.                  *)
(*                                                                         *)
(* Python values are tagged records: the tag k is the Python type.         *)
(*   int    [k, v]            float  [k, num, den]   (the value num/den)   *)
(*   str    [k, s]            bytes  [k, b]          None [k]              *)
(*   tuple  [k, items]        list   [k, items]      dict [k, m]           *)
(*   msg    [k, cls, slots, dir, get]   (an object with __slots__)         *)
(* Names (channels, fields, constants, dict keys) are sequences of         *)
(* one-character strings, so that slicing and regex matching are computed. *)
(***************************************************************************)
EXTENDS Integers, Sequences, FiniteSets, TLC

(***************************************************************************)
(* Bounds of the model.                                                    *)
(***************************************************************************)
\* Longest log that is streamed.
MaxRecords == 3

(***************************************************************************)
(* Program constants.                                                      *)
(***************************************************************************)
\* The slice bound of const[:31] and field[:31].
KeyLen == 31
\* The divisor of (e.timestamp - startTime) / 1e6.
Million == 1000000
\* e.data[:8]: the length of the packed fingerprint.
FingerprintLen == 8

Min(a, b) == IF a < b THEN a ELSE b

\* n copies of the character c.
Rep(c, n) == [i \in 1..n |-> c]

\* The Python slice s[:n].
SliceTo(s, n) == SubSeq(s, 1, Min(Len(s), n))

\* name[:31]
Trunc(name) == SliceTo(name, KeyLen)

(***************************************************************************)
(* Python values.                                                          *)
(***************************************************************************)
PyInt(n) == [k |-> "int", v |-> n]
PyFloat(n, d) == [k |-> "float", num |-> n, den |-> d]
PyStr(s) == [k |-> "str", s |-> s]
PyBytes(b) == [k |-> "bytes", b |-> b]
PyNone == [k |-> "None"]
PyMethod == [k |-> "method"]
PyTuple(items) == [k |-> "tuple", items |-> items]
PyList(items) == [k |-> "list", items |-> items]
PyDict(m) == [k |-> "dict", m |-> m]
EmptyMap == [x \in {} |-> PyNone]
EmptyDict == PyDict(EmptyMap)

\* d[key] = val on the mapping of a dict.
MapSet(m, key, val) ==
    [x \in DOMAIN m \cup {key} |-> IF x = key THEN val ELSE m[x]]

\* x > 0 for a Python number.
GtZero(x) == IF x.k = "float" THEN x.num > 0 ELSE x.v > 0

\* isinstance(value, (int, long, float, str, tuple, unicode))
IsScalar(value) == value.k \in {"int", "float", "str", "tuple"}

\* hasattr(value, "__slots__")
HasSlots(value) == value.k = "msg"

\* isinstance(value, list)
IsList(value) == value.k = "list"

(***************************************************************************)
(* Regular expressions (re.compile / pattern.match).  A pattern is a tree; *)
(* MatchEnds lists, in the order a backtracking matcher tries them, the    *)
(* positions where a match of p that starts after position i of s can end. *)
(* pattern.match(s) anchors at the start of s and takes the first of them, *)
(* so a greedy star prefers its longest iteration and an alternation its   *)
(* left branch.                                                            *)
(***************************************************************************)
ReEps == [op |-> "eps"]
ReAny == [op |-> "any"]
ReEol == [op |-> "eol"]
ReBol == [op |-> "bol"]
ReChr(c) == [op |-> "chr", c |-> c]
ReStar(r) == [op |-> "star", l |-> r]
ReCat(a, b) == [op |-> "cat", l |-> a, r |-> b]
ReAlt(a, b) == [op |-> "alt", l |-> a, r |-> b]

RECURSIVE MatchEnds(_, _, _)
RECURSIVE MatchEndsFrom(_, _, _, _)
RECURSIVE StarEnds(_, _, _, _)

\* The ends of p started at each position of the list starts, in order.
MatchEndsFrom(p, s, starts, n) ==
    IF n > Len(starts) THEN <<>>
    ELSE MatchEnds(p, s, starts[n]) \o MatchEndsFrom(p, s, starts, n + 1)

\* Greedy r*: one more iteration of r first (only if it consumed
\* something), then the empty iteration.
StarEnds(r, s, i, once) ==
    LET more == SelectSeq(once, LAMBDA j : j > i)
    IN  MatchEndsFrom(ReStar(r), s, more, 1) \o <<i>>

MatchEnds(p, s, i) ==
    CASE p.op = "eps" -> <<i>>
      [] p.op = "bol" -> IF i = 0 THEN <<i>> ELSE <<>>
      [] p.op = "eol" -> IF i = Len(s) THEN <<i>> ELSE <<>>
      [] p.op = "any" -> IF i < Len(s) THEN <<i + 1>> ELSE <<>>
      [] p.op = "chr" -> IF i < Len(s) /\ s[i + 1] = p.c THEN <<i + 1>> ELSE <<>>
      [] p.op = "cat" -> MatchEndsFrom(p.r, s, MatchEnds(p.l, s, i), 1)
      [] p.op = "alt" -> MatchEnds(p.l, s, i) \o MatchEnds(p.r, s, i)
      [] p.op = "star" -> StarEnds(p.l, s, i, MatchEnds(p.l, s, i))

\* pattern.match(s): a match object, or None.
ReMatch(p, s) ==
    LET ends == MatchEnds(p, s, 0)
    IN  IF ends = <<>> THEN [matched |-> FALSE, group |-> <<>>]
        ELSE [matched |-> TRUE, group |-> SubSeq(s, 1, Head(ends))]

(***************************************************************************)
(* Names used by the code itself.                                          *)
(***************************************************************************)
\* "lcm_timestamp"
KeyLcmTimestamp == <<"l","c","m","_","t","i","m","e","s","t","a","m","p">>
\* "images", "RGB", "depth", "data"
NameImages == <<"i","m","a","g","e","s">>
KeyRGB == <<"R","G","B">>
KeyDepth == <<"d","e","p","t","h">>
NameData == <<"d","a","t","a">>
\* "decode", "encode"
NameDecode == <<"d","e","c","o","d","e">>
NameEncode == <<"e","n","c","o","d","e">>
\* "LCM_SELF_TEST"
LcmSelfTest == <<"L","C","M","_","S","E","L","F","_","T","E","S","T">>

\* _SUPPORTED_IMAGE_TYPES, by class name.
SupportedImageTypes == {"bot_core.image_t.image_t", "drake.lcmt_image.lcmt_image"}

\* The members of a sequence.
Range(seq) == {seq[i] : i \in 1..Len(seq)}

(***************************************************************************)
(* Reflection on a message object.                                         *)
(***************************************************************************)
\* msg_getfields: lcm_msg.__slots__
MsgGetFields(lcm_msg) == lcm_msg.slots

\* msg_getconstants: the names of dir(lcm_msg), in its order, that do not
\* start with "_", are not decode or encode, and are not fields.
MsgGetConstants(lcm_msg) ==
    SelectSeq(lcm_msg.dir,
              LAMBDA x : /\ ~(x[1] = "_")
                         /\ ~(x = NameDecode)
                         /\ ~(x = NameEncode)
                         /\ x \notin Range(MsgGetFields(lcm_msg)))

\* getattr(msg, name)
GetAttr(msg, name) == msg.get[name]

\* for const in consts: m[const[:31]] = getattr(msg, const), from the n-th.
RECURSIVE StoreConstants(_, _, _, _)
StoreConstants(m, msg, consts, n) ==
    IF n > Len(consts) THEN m
    ELSE StoreConstants(MapSet(m, Trunc(consts[n]), GetAttr(msg, consts[n])),
                        msg, consts, n + 1)

(***************************************************************************)
(* An operation that can raise returns [ok, val]: ok = FALSE is an         *)
(* exception that nothing catches, val the object as it was left.          *)
(***************************************************************************)
Ok(val) == [ok |-> TRUE, val |-> val]
Raise(val) == [ok |-> FALSE, val |-> val]

(***************************************************************************)
(* msg_to_dict: one message (an element of a list-typed field) to a dict   *)
(* of plain values.  Each loop is a recursive operator; what follows the   *)
(* call that can raise is the operator named ...Next.                      *)
(***************************************************************************)
RECURSIVE MsgToDict(_, _)
RECURSIVE MsgToDictFields(_, _, _, _)
RECURSIVE MsgToDictItems(_, _, _, _)
RECURSIVE MsgToDictRows(_, _, _, _)

\* A field that is left out of the dict ("ignoring field ...").
Ignored == Ok([k |-> "ignored"])

MsgToDictItemsNext(r, items, n, acc, lcm_timestamp) ==
    IF r.ok THEN MsgToDictItems(items, n + 1, Append(acc, r.val), lcm_timestamp)
    ELSE Raise(PyTuple(acc))

\* tuple(msg_to_dict(channel, item, ...) for item in items), from the n-th.
MsgToDictItems(items, n, acc, lcm_timestamp) ==
    IF n > Len(items) THEN Ok(PyTuple(acc))
    ELSE MsgToDictItemsNext(MsgToDict(items[n], lcm_timestamp), items, n, acc,
                            lcm_timestamp)

MsgToDictRowsNext(r, rows, n, acc, lcm_timestamp) ==
    IF r.ok THEN MsgToDictRows(rows, n + 1, Append(acc, r.val), lcm_timestamp)
    ELSE Raise(PyList(acc))

\* [tuple(msg_to_dict(...) for item in row) for row in value], from the n-th.
\* Iterating a row that is no sequence raises TypeError.
MsgToDictRows(rows, n, acc, lcm_timestamp) ==
    IF n > Len(rows) THEN Ok(PyList(acc))
    ELSE IF rows[n].k \notin {"list", "tuple"} THEN Raise(PyList(acc))
    ELSE MsgToDictRowsNext(MsgToDictItems(rows[n].items, 1, <<>>, lcm_timestamp),
                           rows, n, acc, lcm_timestamp)

\* What data[field] is set to for a field of the given value.
MsgToDictValue(value, lcm_timestamp) ==
    IF IsScalar(value) THEN Ok(value)
    ELSE IF HasSlots(value) THEN MsgToDict(value, lcm_timestamp)
    ELSE IF IsList(value)
      THEN \* value[0] of an empty list raises IndexError
           IF Len(value.items) = 0 THEN Raise(PyNone)
           ELSE IF IsList(value.items[1])
             THEN MsgToDictRows(value.items, 1, <<>>, lcm_timestamp)
           ELSE MsgToDictItems(value.items, 1, <<>>, lcm_timestamp)
    ELSE Ignored

MsgToDictFieldsNext(r, data, msg, n, lcm_timestamp) ==
    IF ~r.ok THEN Raise(data)
    ELSE MsgToDictFields(IF r = Ignored THEN data
                         ELSE MapSet(data, MsgGetFields(msg)[n], r.val),
                         msg, n + 1, lcm_timestamp)

\* The loop over the fields of msg, from the n-th, into the mapping data.
MsgToDictFields(data, msg, n, lcm_timestamp) ==
    IF n > Len(MsgGetFields(msg)) THEN Ok(data)
    ELSE MsgToDictFieldsNext(
             MsgToDictValue(GetAttr(msg, MsgGetFields(msg)[n]), lcm_timestamp),
             data, msg, n, lcm_timestamp)

\* if lcm_timestamp > 0: data["lcm_timestamp"] = lcm_timestamp; return data
MsgToDictEnd(r, lcm_timestamp) ==
    IF ~r.ok THEN Raise(PyDict(r.val))
    ELSE IF GtZero(lcm_timestamp)
      THEN Ok(PyDict(MapSet(r.val, KeyLcmTimestamp, lcm_timestamp)))
    ELSE Ok(PyDict(r.val))

\* msg_getfields(msg) of an object without __slots__ raises AttributeError.
MsgToDict(msg, lcm_timestamp) ==
    IF ~HasSlots(msg) THEN Raise(EmptyDict)
    ELSE MsgToDictEnd(
             MsgToDictFields(StoreConstants(EmptyMap, msg, MsgGetConstants(msg), 1),
                             msg, 1, lcm_timestamp),
             lcm_timestamp)

(***************************************************************************)
(* append_msg_to_dict: one decoded message into data[e_channel].           *)
(***************************************************************************)
\* decompress_images, the default of parse_lcm and append_msg_to_dict.
DecompressImages == TRUE

\* str(type(value)) as far as _SUPPORTED_IMAGE_TYPES tells types apart.
TypeName(value) == IF value.k = "msg" THEN value.cls ELSE value.k

\* The numpy array the image codecs make of an image's data.
PyArray(src) == [k |-> "ndarray", src |-> src]

\* A column that grows at its front.
ColumnPrepend(node, key, v) ==
    IF node.k # "dict" THEN [ok |-> FALSE, val |-> node]
    ELSE IF key \notin DOMAIN node.m
      THEN [ok |-> TRUE, val |-> PyDict(MapSet(node.m, key, PyList(<<v>>)))]
    ELSE IF node.m[key].k = "list"
      THEN [ok |-> TRUE,
            val |-> PyDict(MapSet(node.m, key, PyList(<<v>> \o node.m[key].items)))]
    ELSE [ok |-> FALSE, val |-> node]

\* try: node[key].append(v)  except KeyError: node[key] = [v]
\* A node that is no dict raises TypeError, an entry that is no list
\* AttributeError; neither is caught.
ColumnAppend(node, key, v) ==
    IF node.k # "dict" THEN Raise(node)
    ELSE IF key \notin DOMAIN node.m
      THEN Ok(PyDict(MapSet(node.m, key, PyList(<<v>>))))
    ELSE IF node.m[key].k = "list"
      THEN Ok(PyDict(MapSet(node.m, key, PyList(Append(node.m[key].items, v)))))
    ELSE Raise(node)

\* The "images" branch: the colour and depth images of value[0], value[1]
\* appended to the columns RGB and depth; a KeyError sets both columns.
ImageOf(item) ==
    IF DecompressImages THEN PyArray(GetAttr(item, NameData))
    ELSE GetAttr(item, NameData)

SetImageColumns(m, rgb, depth) ==
    MapSet(MapSet(m, KeyRGB, PyList(<<rgb>>)), KeyDepth, PyList(<<depth>>))

AppendDepth(r, node, rgb, depth) ==
    IF ~r.ok THEN r
    ELSE IF KeyDepth \notin DOMAIN node.m
      THEN Ok(PyDict(SetImageColumns(node.m, rgb, depth)))
    ELSE ColumnAppend(r.val, KeyDepth, depth)

AppendImages(node, value) ==
    IF Len(value.items) < 2 \/ node.k # "dict" THEN Raise(node)
    ELSE IF KeyRGB \notin DOMAIN node.m
      THEN Ok(PyDict(SetImageColumns(node.m, ImageOf(value.items[1]),
                                     ImageOf(value.items[2]))))
    ELSE AppendDepth(ColumnAppend(node, KeyRGB, ImageOf(value.items[1])), node,
                     ImageOf(value.items[1]), ImageOf(value.items[2]))

\* data[e_channel][field] = tuple(msg_to_dict(...) for item in my_value)
\* The key is the field name as it is.
ListKey(field) == field

StoreTuple(r, node, field) ==
    IF ~r.ok \/ node.k # "dict" THEN Raise(node)
    ELSE Ok(PyDict(MapSet(node.m, ListKey(field), r.val)))

RECURSIVE AppendMsgToDict(_, _, _, _)
RECURSIVE AppendFields(_, _, _, _)

\* One iteration of the loop over the fields, on node = data[e_channel].
AppendField(node, field, my_value, lcm_timestamp) ==
    IF IsScalar(my_value)
      THEN ColumnAppend(node, Trunc(field), my_value)
    ELSE IF HasSlots(my_value)
      THEN AppendMsgToDict(node, Trunc(field), my_value, PyInt(-1))
    ELSE IF field = NameImages /\ IsList(my_value) /\ Len(my_value.items) = 0
      THEN \* my_value[0] raises IndexError
           Raise(node)
    ELSE IF field = NameImages /\ IsList(my_value)
            /\ TypeName(my_value.items[1]) \in SupportedImageTypes
      THEN AppendImages(node, my_value)
    ELSE IF IsList(my_value)
      THEN StoreTuple(MsgToDictItems(my_value.items, 1, <<>>, lcm_timestamp),
                      node, field)
    ELSE \* "ignoring field ...": continue
         Ok(node)

AppendFieldsNext(r, msg, n, lcm_timestamp) ==
    IF ~r.ok THEN r ELSE AppendFields(r.val, msg, n + 1, lcm_timestamp)

\* The loop over the fields of msg, from the n-th.
AppendFields(node, msg, n, lcm_timestamp) ==
    IF n > Len(MsgGetFields(msg)) THEN Ok(node)
    ELSE AppendFieldsNext(
             AppendField(node, MsgGetFields(msg)[n],
                         GetAttr(msg, MsgGetFields(msg)[n]), lcm_timestamp),
             msg, n, lcm_timestamp)

\* The constants are written for every message, not only the first.
InitChannelAlways(m, e_channel, msg) ==
    MapSet(m, e_channel,
           PyDict(StoreConstants(IF e_channel \in DOMAIN m
                                   THEN m[e_channel].m ELSE EmptyMap,
                                 msg, MsgGetConstants(msg), 1)))

\* if e_channel not in data: data[e_channel] = {} and its constants.
InitChannel(m, e_channel, msg) ==
    IF e_channel \notin DOMAIN m
      THEN MapSet(m, e_channel,
                  PyDict(StoreConstants(EmptyMap, msg, MsgGetConstants(msg), 1)))
      ELSE m

\* if lcm_timestamp > 0: the column lcm_timestamp gets it.
AppendTimestamp(r, lcm_timestamp) ==
    IF r.ok /\ GtZero(lcm_timestamp)
      THEN ColumnAppend(r.val, KeyLcmTimestamp, lcm_timestamp)
      ELSE r

\* The dict data with data[e_channel] as the call left it.
Updated(m, e_channel, r) ==
    [ok |-> r.ok, val |-> PyDict(MapSet(m, e_channel, r.val))]

AppendToChannel(m, e_channel, msg, lcm_timestamp) ==
    Updated(m, e_channel,
            AppendTimestamp(AppendFields(m[e_channel], msg, 1, lcm_timestamp),
                            lcm_timestamp))

\* data is the dict (top level: the store; below: a channel's or nested
\* message's dict) that gets or has the key e_channel.
AppendMsgToDict(data, e_channel, msg, lcm_timestamp) ==
    IF data.k # "dict" THEN Raise(data)
    ELSE AppendToChannel(InitChannel(data.m, e_channel, msg), e_channel, msg,
                         lcm_timestamp)

(***************************************************************************)
(* The inputs: message types, the type registry, channels, payloads and    *)
(* command lines the model draws from.                                     *)
(***************************************************************************)
\* Field and constant names of the message types.
NameA == <<"a">>
NameB == <<"b">>
NameX == <<"x">>
NamePos == <<"p","o","s">>
NameRaw == <<"r","a","w">>
NameNames == <<"n","a","m","e","s">>
NameSub == <<"s","u","b">>
NameGetPackedFingerprint ==
    <<"_","g","e","t","_","p","a","c","k","e","d","_",
      "f","i","n","g","e","r","p","r","i","n","t">>
\* A scalar field, a list field and a constant whose names are longer than
\* KeyLen.
NameLongScalar == Rep("s", KeyLen + 1)
NameLongList == Rep("l", KeyLen + 1)
NameLongConst == Rep("K", KeyLen + 2)

\* An object of class cls: __slots__, dir() in its sorted order, attributes.
MkMsg(cls, slots, dir, get) ==
    [k |-> "msg", cls |-> cls, slots |-> slots, dir |-> dir, get |-> get]

Methods == {NameGetPackedFingerprint, NameDecode, NameEncode}

\* point_t: one scalar field x and a constant.
MsgPoint(n) ==
    MkMsg("point_t", <<NameX>>,
          <<NameLongConst, NameGetPackedFingerprint, NameDecode, NameEncode,
            NameX>>,
          [f \in Methods \cup {NameX, NameLongConst} |->
              CASE f = NameX -> PyInt(n)
                [] f = NameLongConst -> PyInt(3)
                [] OTHER -> PyMethod])

\* pose_t: scalar a, nested point pos, bytes raw (no supported kind), a
\* scalar with a long name, and a constant with a long name.
MsgPose(n) ==
    MkMsg("pose_t", <<NameA, NamePos, NameRaw, NameLongScalar>>,
          <<NameLongConst, NameGetPackedFingerprint, NameA, NameDecode,
            NameEncode, NamePos, NameRaw, NameLongScalar>>,
          [f \in Methods \cup {NameA, NamePos, NameRaw, NameLongScalar,
                               NameLongConst} |->
              CASE f = NameA -> PyInt(n)
                [] f = NamePos -> MsgPoint(n)
                [] f = NameRaw -> PyBytes("raw")
                [] f = NameLongScalar -> PyInt(10 * n)
                [] f = NameLongConst -> PyInt(7)
                [] OTHER -> PyMethod])

\* group_t: a list field sub of points (an element of a list).
MsgGroup(items) ==
    MkMsg("group_t", <<NameSub>>,
          <<NameGetPackedFingerprint, NameDecode, NameEncode, NameSub>>,
          [f \in Methods \cup {NameSub} |->
              IF f = NameSub THEN PyList(items) ELSE PyMethod])

\* track_t: scalar b, a list-typed field with a long name, and a constant
\* of the name of pose_t's with another value.
MsgTrack(n, items) ==
    MkMsg("track_t", <<NameB, NameLongList>>,
          <<NameLongConst, NameGetPackedFingerprint, NameB, NameDecode,
            NameEncode, NameLongList>>,
          [f \in Methods \cup {NameB, NameLongList, NameLongConst} |->
              CASE f = NameB -> PyInt(n)
                [] f = NameLongList -> PyList(items)
                [] f = NameLongConst -> PyInt(9)
                [] OTHER -> PyMethod])

\* labels_t: scalar a and a list of strings.
MsgLabels(n) ==
    MkMsg("labels_t", <<NameA, NameNames>>,
          <<NameGetPackedFingerprint, NameA, NameDecode, NameEncode,
            NameNames>>,
          [f \in Methods \cup {NameA, NameNames} |->
              CASE f = NameA -> PyInt(n)
                [] f = NameNames -> PyList(<<PyStr("n")>>)
                [] OTHER -> PyMethod])

\* image_t and images_t: the pair of images of the "images" branch.
MsgImage(bytes) ==
    MkMsg("bot_core.image_t.image_t", <<NameData>>,
          <<NameGetPackedFingerprint, NameData, NameDecode, NameEncode>>,
          [f \in Methods \cup {NameData} |->
              IF f = NameData THEN PyBytes(bytes) ELSE PyMethod])

MsgImages ==
    MkMsg("images_t", <<NameImages>>,
          <<NameGetPackedFingerprint, NameDecode, NameEncode, NameImages>>,
          [f \in Methods \cup {NameImages} |->
              IF f = NameImages
                THEN PyList(<<MsgImage("jpeg"), MsgImage("zlib")>>)
                ELSE PyMethod])

\* Packed fingerprints: FingerprintLen bytes each.
FpPose == Rep(1, FingerprintLen)
FpTrack == Rep(2, FingerprintLen)
FpLabels == Rep(3, FingerprintLen)
FpImages == Rep(4, FingerprintLen)
FpUnknown == Rep(9, FingerprintLen)

\* TYPE_DB = make_lcmtype_dictionary(): packed fingerprint -> class.
TYPE_DB ==
    [fp \in {FpPose, FpTrack, FpLabels, FpImages} |->
        CASE fp = FpPose -> "pose_t"
          [] fp = FpTrack -> "track_t"
          [] fp = FpLabels -> "labels_t"
          [] fp = FpImages -> "images_t"]

\* A payload: its leading bytes (the fingerprint and one more byte) and
\* what the rest decodes to (None: it does not decode).
Payload(fp, body) == [head |-> fp \o <<0>>, body |-> body]

PayPose(n) == Payload(FpPose, MsgPose(n))
PayTrackFull == Payload(FpTrack, MsgTrack(1, <<MsgPoint(1), MsgGroup(<<MsgPoint(2)>>)>>))
PayTrackEmpty == Payload(FpTrack, MsgTrack(2, <<>>))
PayLabels == Payload(FpLabels, MsgLabels(1))
PayImages == Payload(FpImages, MsgImages)
PayUnknown == Payload(FpUnknown, MsgPose(1))
PayCorrupt == Payload(FpPose, PyNone)

\* Channel names.
ChanC == <<"C">>
ChanCD == <<"C","D">>
ChanLong == Rep("N", KeyLen + 2)
Channels == {ChanC, ChanCD, ChanLong, LcmSelfTest}

\* Microsecond timestamps of the records.
TimeStamps == {Million, 2 * Million}

\* The (channel, payload) pairs a record is drawn from; a pose carries the
\* second it was taken at as its value.
RecordKinds(t) ==
    ({ChanC} \X {PayPose(t \div Million), PayTrackFull, PayTrackEmpty,
                 PayLabels, PayImages, PayUnknown, PayCorrupt})
    \cup ({ChanCD} \X {PayPose(t \div Million), PayUnknown})
    \cup ({ChanLong, LcmSelfTest} \X {PayPose(t \div Million)})

Records ==
    UNION {{[channel |-> ck[1], data |-> ck[2], timestamp |-> t] :
               ck \in RecordKinds(t)} : t \in TimeStamps}

\* Patterns of the command lines: ".*" (the default of -c), "" (the default
\* of -i), "C" and "C|CD".
PatAll == ReStar(ReAny)
PatEmpty == ReEps
PatC == ReChr("C")
PatCorCD == ReAlt(ReChr("C"), ReCat(ReChr("C"), ReChr("D")))

\* A command line: whether getopt rejects an option, the number of
\* positional arguments, -h, -p, -c, -i (given or not), and whether the
\* named log file can be opened.
CmdLine(bad, nargs, help, print, proc, ign, ignGiven, exists) ==
    [bad |-> bad, nargs |-> nargs, help |-> help, printOutput |-> print,
     channelsToProcess |-> proc, channelsToIgnore |-> ign,
     checkIgnore |-> ignGiven, logExists |-> exists]

CmdDefault == CmdLine(FALSE, 1, FALSE, FALSE, PatAll, PatEmpty, FALSE, TRUE)
CmdOnlyC == CmdLine(FALSE, 1, FALSE, FALSE, PatC, PatC, TRUE, TRUE)
CmdIgnoreAlt == CmdLine(FALSE, 1, FALSE, TRUE, PatAll, PatCorCD, TRUE, TRUE)

CommandLines ==
    { CmdDefault, CmdOnlyC, CmdIgnoreAlt,
      [CmdDefault EXCEPT !.bad = TRUE],
      [CmdDefault EXCEPT !.nargs = 0],
      [CmdDefault EXCEPT !.nargs = 2],
      [CmdDefault EXCEPT !.help = TRUE],
      [CmdDefault EXCEPT !.logExists = FALSE] }

(***************************************************************************)
(* The state.                                                              *)
(***************************************************************************)
\* The summary of the records read that the properties are stated on:
\*   first       the first record of the log (its channel, timestamp,
\*               whether its fingerprint is registered and its body decodes)
\*   valid       how many records were on a channel that passes the filter
\*               and is not ignored from the start, with a registered
\*               fingerprint and a body that decodes
\*   undecodable how many were such but for a body that does not decode
\*   other       how many were neither
\*   channels    the channels records were read on
\*   knownOn     the channels that pass the filter and had a record with a
\*               registered fingerprint
\*   unknownOn   the channels that pass the filter and had a record with an
\*               unregistered fingerprint
\*   failures    for each decode failure, its channel and how many messages
\*               of that channel had been decoded before it
NoHistory ==
    [first |-> <<>>, valid |-> 0, undecodable |-> 0, other |-> 0,
     channels |-> {}, knownOn |-> {}, unknownOn |-> {}, failures |-> {}]

VARIABLES
    pc,               \* "start", "configured", "streaming", and the ends
                      \* "usage_exit", "aborted", "done"
    cmd,              \* the command line, once parsed
    usagePrinted,     \* usage() wrote its text
    exitStatus,       \* the exit status of the process, -1 while it runs
    logOpened,        \* EventLog(fname, "r") was called and returned
    outputWritten,    \* the output file was written
    openFiles,        \* the files opened and not closed
    data,             \* the store: a dict channel -> dict
    ignored_channels, \* the memo: a mapping channel -> None | fingerprint
    msgCount,         \* the number of decoded messages
    startTime,        \* the timestamp the others are rebased on
    nread,            \* history: the number of records read from the log
    accepted,         \* history: per channel, the decoded messages and
                      \* their raw timestamps, in the order of the log
    history,          \* history: a summary of the records read (see
                      \* NoHistory)
    ref               \* the engine without the memo, run beside this one

vars == <<pc, cmd, usagePrinted, exitStatus, logOpened, outputWritten,
          openFiles, data, ignored_channels, msgCount, startTime, nread,
          accepted, history, ref>>

engine == <<data, ignored_channels, msgCount, startTime>>
process == <<cmd, usagePrinted, exitStatus, logOpened, outputWritten,
             openFiles>>

\* The engine without the memo before its first record.
RefInit == [data |-> EmptyDict, msgCount |-> 0, startTime |-> 0, ok |-> TRUE]

Init ==
    /\ pc = "start"
    /\ cmd = CmdDefault
    /\ usagePrinted = FALSE
    /\ exitStatus = -1
    /\ logOpened = FALSE
    /\ outputWritten = FALSE
    /\ openFiles = {}
    /\ data = EmptyDict
    /\ ignored_channels = EmptyMap
    /\ msgCount = 0
    /\ startTime = 0
    /\ nread = 0
    /\ accepted = [c \in Channels |-> <<>>]
    /\ history = NoHistory
    /\ ref = RefInit

(***************************************************************************)
(* The command line: getopt, usage(), the option loop.                     *)
(***************************************************************************)
\* The exit status of sys.exit(arg).
SysExit(arg) ==
    IF arg.k = "None" THEN 0 ELSE IF arg.k = "int" THEN arg.v ELSE 1

\* What usage() passes to sys.exit: nothing.
UsageExitArg == PyNone

\* getopt raises GetoptError, or len(args) != 1, or -h is given.
CallsUsage(c) == c.bad \/ c.nargs # 1 \/ c.help

\* A configuration error: an unrecognised option or a number of positional
\* arguments other than one.
ConfigurationError(c) == c.bad \/ c.nargs # 1

\* usage(): writes the usage text and calls sys.exit().
Usage(c) ==
    /\ pc = "start"
    /\ CallsUsage(c)
    /\ cmd' = c
    /\ usagePrinted' = TRUE
    /\ exitStatus' = SysExit(UsageExitArg)
    /\ pc' = "usage_exit"
    /\ UNCHANGED <<logOpened, outputWritten, openFiles, engine, nread, accepted,
                   history, ref>>

\* The options are accepted and stored.
Configure(c) ==
    /\ pc = "start"
    /\ ~CallsUsage(c)
    /\ cmd' = c
    /\ pc' = "configured"
    /\ UNCHANGED <<usagePrinted, exitStatus, logOpened, outputWritten,
                   openFiles, engine, nread, accepted, history, ref>>

\* The log is opened and the memo starts empty.
OpenLogEmptyMemo ==
    /\ pc = "configured"
    /\ cmd.logExists
    /\ logOpened' = TRUE
    /\ openFiles' = openFiles \cup {"log"}
    /\ data' = EmptyDict
    /\ ignored_channels' = EmptyMap
    /\ msgCount' = 0
    /\ startTime' = 0
    /\ pc' = "streaming"
    /\ UNCHANGED <<cmd, usagePrinted, exitStatus, outputWritten, nread,
                   accepted, history, ref>>

\* log = EventLog(fname, "r"), then the loop's variables are set.
OpenLog ==
    /\ pc = "configured"
    /\ cmd.logExists
    /\ logOpened' = TRUE
    /\ openFiles' = openFiles \cup {"log"}
    /\ data' = EmptyDict
    /\ ignored_channels' = MapSet(EmptyMap, LcmSelfTest, PyBytes("lcm self"))
    /\ msgCount' = 0
    /\ startTime' = 0
    /\ pc' = "streaming"
    /\ UNCHANGED <<cmd, usagePrinted, exitStatus, outputWritten, nread,
                   accepted, history, ref>>

\* EventLog raises: the interpreter ends with status 1.
OpenLogFails ==
    /\ pc = "configured"
    /\ ~cmd.logExists
    /\ exitStatus' = 1
    /\ pc' = "aborted"
    /\ UNCHANGED <<cmd, usagePrinted, logOpened, outputWritten, openFiles,
                   engine, nread, accepted, history, ref>>

(***************************************************************************)
(* The record loop of parse_lcm: one action per way an iteration ends.     *)
(***************************************************************************)
\* startTime taken from the first record of the log.
StartTimeOfFirstRecord(e) == IF nread = 0 THEN e.timestamp ELSE startTime

\* if msgCount == 0: startTime = e.timestamp
StartTimeFor(e) == IF msgCount = 0 THEN e.timestamp ELSE startTime

\* (e.timestamp - startTime) / 1e6, a float.
Rebase(timestamp, start) == PyFloat(timestamp - start, Million)

\* The exclusion test without the comparison of the lengths.
IgnoreMatchesAnyLength(c, channel) ==
    c.checkIgnore /\ ReMatch(c.channelsToIgnore, channel).matched

\* checkIgnore and channelsToIgnore.match(channel) and
\* len(channelsToIgnore.match(channel).group()) == len(channel)
IgnoreMatches(c, channel) ==
    LET m == ReMatch(c.channelsToIgnore, channel)
    IN  c.checkIgnore /\ m.matched /\ Len(m.group) = Len(channel)

\* channelsToProcess.match(channel)
ProcessMatches(c, channel) == ReMatch(c.channelsToProcess, channel).matched

\* The condition under which the loop ignores a channel.
FilterTest(c, channel) == IgnoreMatches(c, channel) \/ ~ProcessMatches(c, channel)

\* The same, tabulated over the command lines and channels of the model.
FilterTable ==
    [c \in CommandLines |-> [channel \in Channels |-> FilterTest(c, channel)]]

Filtered(c, channel) == FilterTable[c][channel]

\* packed_fingerprint = e.data[:8]
PackedFingerprint(e) == SliceTo(e.data.head, FingerprintLen)

\* TYPE_DB.get(packed_fingerprint, None)
TypeDbGet(fp) == IF fp \in DOMAIN TYPE_DB THEN PyStr(TYPE_DB[fp]) ELSE PyNone

\* lcmtype.decode(e.data): the message, or an exception.
Decode(lcmtype, payload) ==
    IF payload.body.k = "msg" /\ payload.body.cls = lcmtype.s
      THEN Ok(payload.body)
      ELSE Raise(PyNone)

\* The value the memo keeps for a channel of unknown type.
UnknownEntryNone(packed_fingerprint) == PyNone
UnknownEntry(packed_fingerprint) == PyBytes(packed_fingerprint)

\* History: what kind of record e is, by its content and the options alone.
KindOf(e) ==
    [channel |-> e.channel,
     timestamp |-> e.timestamp,
     known |-> PackedFingerprint(e) \in DOMAIN TYPE_DB,
     decodes |-> e.data.body.k = "msg"]

\* History: e is on a channel the options let through and the memo does not
\* hold from the start.
Eligible(e) == e.channel # LcmSelfTest /\ ~Filtered(cmd, e.channel)

Valid(e) == Eligible(e) /\ KindOf(e).known /\ KindOf(e).decodes

Undecodable(e) == Eligible(e) /\ KindOf(e).known /\ ~KindOf(e).decodes

Record(e) ==
    [history EXCEPT
       !.first = IF nread = 0 THEN <<KindOf(e)>> ELSE @,
       !.valid = IF Valid(e) THEN @ + 1 ELSE @,
       !.undecodable = IF Undecodable(e) THEN @ + 1 ELSE @,
       !.other = IF ~Valid(e) /\ ~Undecodable(e) THEN @ + 1 ELSE @,
       !.channels = @ \cup {e.channel},
       !.knownOn = IF Eligible(e) /\ KindOf(e).known
                     THEN @ \cup {e.channel} ELSE @,
       !.unknownOn = IF Eligible(e) /\ ~KindOf(e).known
                       THEN @ \cup {e.channel} ELSE @]

\* The engine without the memo: its startTime for the record e.
RefStartTime(e) == IF ref.msgCount = 0 THEN e.timestamp ELSE ref.startTime

\* The engine without the memo skips e: by the fixed entry of the channel
\* LCM_SELF_TEST, the filter, the lookup of the fingerprint or the decoder.
RefSkips(e) ==
    \/ e.channel = LcmSelfTest
    \/ Filtered(cmd, e.channel)
    \/ TypeDbGet(PackedFingerprint(e)) = PyNone
    \/ ~Decode(TypeDbGet(PackedFingerprint(e)), e.data).ok

\* The engine without the memo after append_msg_to_dict gave r for e.
RefAppended(r, e) ==
    [data |-> r.val, msgCount |-> ref.msgCount + 1,
     startTime |-> RefStartTime(e), ok |-> r.ok]

\* The engine without the memo after the record e.
RefStep(e) ==
    IF ~ref.ok THEN ref
    ELSE IF RefSkips(e) THEN [ref EXCEPT !.startTime = RefStartTime(e)]
    ELSE RefAppended(AppendMsgToDict(ref.data, e.channel, e.data.body,
                                     Rebase(e.timestamp, RefStartTime(e))),
                     e)

\* The head of every iteration: a record is read, startTime may be set.
Read(e) ==
    /\ pc = "streaming"
    /\ nread < MaxRecords
    /\ nread' = nread + 1
    /\ startTime' = StartTimeFor(e)
    /\ ref' = RefStep(e)

\* History: the decode failure on e is noted.
RecordFailure(e) ==
    [Record(e) EXCEPT
       !.failures = @ \cup {[channel |-> e.channel,
                             after |-> Len(accepted[e.channel])]}]

\* The record of a channel in the memo is counted before it is skipped.
SkipIgnoredCounted(e) ==
    /\ Read(e)
    /\ history' = Record(e)
    /\ e.channel \in DOMAIN ignored_channels
    /\ msgCount' = msgCount + 1
    /\ UNCHANGED <<pc, process, data, ignored_channels, accepted>>

\* if e.channel in ignored_channels: continue
SkipIgnored(e) ==
    /\ Read(e)
    /\ history' = Record(e)
    /\ e.channel \in DOMAIN ignored_channels
    /\ UNCHANGED <<pc, process, data, ignored_channels, msgCount, accepted>>

\* The channel is excluded or not included: ignored_channels[e.channel] = None
FilterChannel(e) ==
    /\ Read(e)
    /\ history' = Record(e)
    /\ e.channel \notin DOMAIN ignored_channels
    /\ Filtered(cmd, e.channel)
    /\ ignored_channels' = MapSet(ignored_channels, e.channel, PyNone)
    /\ UNCHANGED <<pc, process, data, msgCount, accepted>>

\* No type for the fingerprint, and the channel gets an empty entry.
UnknownTypeMakesEntry(e) ==
    /\ Read(e)
    /\ history' = Record(e)
    /\ e.channel \notin DOMAIN ignored_channels
    /\ ~Filtered(cmd, e.channel)
    /\ TypeDbGet(PackedFingerprint(e)) = PyNone
    /\ ignored_channels' =
           MapSet(ignored_channels, e.channel, UnknownEntry(PackedFingerprint(e)))
    /\ data' = IF e.channel \in DOMAIN data.m
                 THEN data
                 ELSE PyDict(MapSet(data.m, e.channel, EmptyDict))
    /\ UNCHANGED <<pc, process, msgCount, accepted>>

\* No type for the fingerprint: ignored_channels[e.channel] = packed_fingerprint
UnknownType(e) ==
    /\ Read(e)
    /\ history' = Record(e)
    /\ e.channel \notin DOMAIN ignored_channels
    /\ ~Filtered(cmd, e.channel)
    /\ TypeDbGet(PackedFingerprint(e)) = PyNone
    /\ ignored_channels' =
           MapSet(ignored_channels, e.channel, UnknownEntry(PackedFingerprint(e)))
    /\ UNCHANGED <<pc, process, data, msgCount, accepted>>

\* lcmtype.decode raises and the channel is given up like one of unknown type.
DecodeFailsGivesUp(e) ==
    /\ Read(e)
    /\ history' = RecordFailure(e)
    /\ e.channel \notin DOMAIN ignored_channels
    /\ ~Filtered(cmd, e.channel)
    /\ TypeDbGet(PackedFingerprint(e)) # PyNone
    /\ ~Decode(TypeDbGet(PackedFingerprint(e)), e.data).ok
    /\ ignored_channels' = MapSet(ignored_channels, e.channel, PyNone)
    /\ UNCHANGED <<pc, process, data, msgCount, accepted>>

\* lcmtype.decode raises: the record is dropped.
DecodeFails(e) ==
    /\ Read(e)
    /\ history' = RecordFailure(e)
    /\ e.channel \notin DOMAIN ignored_channels
    /\ ~Filtered(cmd, e.channel)
    /\ TypeDbGet(PackedFingerprint(e)) # PyNone
    /\ ~Decode(TypeDbGet(PackedFingerprint(e)), e.data).ok
    /\ UNCHANGED <<pc, process, data, ignored_channels, msgCount, accepted>>

\* The record decodes (the progress line of every 5000th message only
\* writes to stderr and is left out).
Decodes(e) ==
    /\ Read(e)
    /\ history' = Record(e)
    /\ e.channel \notin DOMAIN ignored_channels
    /\ ~Filtered(cmd, e.channel)
    /\ TypeDbGet(PackedFingerprint(e)) # PyNone
    /\ Decode(TypeDbGet(PackedFingerprint(e)), e.data).ok
    /\ msgCount' = msgCount + 1
    /\ accepted' = [accepted EXCEPT ![e.channel] =
                       Append(@, [msg |-> e.data.body, timestamp |-> e.timestamp])]

\* What append_msg_to_dict makes of the store for the decoded record e.
Aggregated(e) ==
    AppendMsgToDict(data, e.channel, e.data.body,
                    Rebase(e.timestamp, StartTimeFor(e)))

\* append_msg_to_dict returns.
Returns(r) ==
    /\ r.ok
    /\ data' = r.val
    /\ UNCHANGED <<pc, process, ignored_channels>>

\* append_msg_to_dict raises an exception nothing catches: the interpreter
\* prints the traceback and ends with status 1.
RaisesUncaught(r) ==
    /\ ~r.ok
    /\ data' = r.val
    /\ pc' = "aborted"
    /\ exitStatus' = 1
    /\ UNCHANGED <<cmd, usagePrinted, logOpened, outputWritten, openFiles,
                   ignored_channels>>

AppendMessage(e) == Decodes(e) /\ Returns(Aggregated(e))

AppendRaises(e) == Decodes(e) /\ RaisesUncaught(Aggregated(e))

\* The log is exhausted: the output is written unless -p was given (the
\* output file is opened, written and closed), and the script ends. The
\* log is not closed.
Finish ==
    /\ pc = "streaming"
    /\ outputWritten' = ~cmd.printOutput
    /\ openFiles' = IF cmd.printOutput
                      THEN openFiles
                      ELSE (openFiles \cup {"output"}) \ {"output"}
    /\ exitStatus' = 0
    /\ pc' = "done"
    /\ UNCHANGED <<cmd, usagePrinted, logOpened, engine, nread, accepted,
                   history, ref>>

\* len(ignored_channels), the number the summary of the run gives.
SummaryCount == Cardinality(DOMAIN ignored_channels)

\* The summary is printed unless the memo holds LCM_SELF_TEST alone.
SummaryPrinted ==
    /\ DOMAIN ignored_channels # {}
    /\ ~(Cardinality(DOMAIN ignored_channels) = 1
          /\ LcmSelfTest \in DOMAIN ignored_channels)

Next ==
    \/ \E c \in CommandLines : Usage(c)
    \/ \E c \in CommandLines : Configure(c)
    \/ OpenLog
    \/ OpenLogFails
    \/ \E e \in Records : SkipIgnored(e)
    \/ \E e \in Records : FilterChannel(e)
    \/ \E e \in Records : UnknownType(e)
    \/ \E e \in Records : DecodeFails(e)
    \/ \E e \in Records : AppendMessage(e)
    \/ \E e \in Records : AppendRaises(e)
    \/ Finish

Spec == Init /\ [][Next]_vars

(***************************************************************************)
(* Properties.                                                             *)
(***************************************************************************)
\* The store exists for a caller: the run has not ended in an exception.
Observable == pc \in {"streaming", "done"}

\* The paths (sequences of keys) from a node of the store to its lists.
RECURSIVE LeafPaths(_)
LeafPaths(node) ==
    IF node.k = "list" THEN {<<>>}
    ELSE IF node.k = "dict"
      THEN UNION {{<<key>> \o p : p \in LeafPaths(node.m[key])} :
                     key \in DOMAIN node.m}
    ELSE {}

RECURSIVE NodeAt(_, _)
NodeAt(node, path) ==
    IF path = <<>> THEN node ELSE NodeAt(node.m[Head(path)], Tail(path))

\* The columns the code keeps itself, not for a scalar field.
OwnKeys == {KeyLcmTimestamp, KeyRGB, KeyDepth}

\* The scalar leaf columns of channel c.
ScalarColumns(c) ==
    {p \in LeafPaths(data.m[c]) : p # <<>> /\ p[Len(p)] \notin OwnKeys}

\* The value a message has at a path of truncated field names.
Missing == [k |-> "missing"]

RECURSIVE FieldAt(_, _)
FieldAt(value, path) ==
    IF path = <<>> THEN value
    ELSE IF ~HasSlots(value) THEN Missing
    ELSE LET fs == {f \in Range(MsgGetFields(value)) : Trunc(f) = Head(path)}
         IN  IF fs = {} THEN Missing
             ELSE FieldAt(GetAttr(value, CHOOSE f \in fs : TRUE), Tail(path))

\* The values the decoded messages of channel c have at path p, in order.
ValuesAt(c, p) ==
    [n \in 1..Len(accepted[c]) |-> FieldAt(accepted[c][n].msg, p)]

\* All decoded messages of channel c are of one message type.
OneType(c) ==
    \A i, j \in 1..Len(accepted[c]) :
        accepted[c][i].msg.cls = accepted[c][j].msg.cls

\* C1 as stated: in every channel of the store, every scalar leaf column
\* holds, at position N, the value its field had in the N-th decoded
\* message of that channel.
C1_NthValueIsNthMessage ==
    Observable =>
        \A c \in DOMAIN data.m :
            \A p \in ScalarColumns(c) :
                NodeAt(data.m[c], p).items = ValuesAt(c, p)

\* C1 amended: the same for every channel whose decoded messages are all of
\* one message type: each scalar leaf column holds, at position N, the value
\* its field had in the N-th decoded message of that channel, whatever was
\* read on other channels in between.
C1_NthValueOnOneTypeChannel ==
    Observable =>
        \A c \in DOMAIN data.m :
            OneType(c) =>
                \A p \in ScalarColumns(c) :
                    NodeAt(data.m[c], p).items = ValuesAt(c, p)

\* C1 witness: two poses with different values decoded on C, newest value
\* first, and a message decoded on CD; C has a top-level and a nested column.
C1_Witness ==
    /\ Observable
    /\ OneType(ChanC)
    /\ Len(accepted[ChanC]) = 2
    /\ Len(accepted[ChanCD]) = 1
    /\ ChanC \in DOMAIN data.m
    /\ {<<NameA>>, <<NamePos, NameX>>} \subseteq ScalarColumns(ChanC)
    /\ NodeAt(data.m[ChanC], <<NameA>>).items = <<PyInt(2), PyInt(1)>>
    /\ NodeAt(data.m[ChanC], <<NamePos, NameX>>).items = <<PyInt(2), PyInt(1)>>

\* The column lcm_timestamp of channel c, empty when there is none.
TimestampColumn(c) ==
    IF KeyLcmTimestamp \in DOMAIN data.m[c].m
      THEN data.m[c].m[KeyLcmTimestamp].items
      ELSE <<>>

\* C2 as stated: after a run whose records were all decoded on one channel,
\* that channel's lcm_timestamp column has one entry per decoded message,
\* the first of them 0.0.
C2_TimestampPerAcceptedMessage ==
    pc = "done" =>
        \A c \in Channels :
            (nread > 0 /\ Len(accepted[c]) = nread) =>
                /\ c \in DOMAIN data.m
                /\ Len(TimestampColumn(c)) = Len(accepted[c])
                /\ TimestampColumn(c)[1] = PyFloat(0, Million)

\* The pattern can match the whole of the channel name.
FullMatches(p, channel) == Len(channel) \in Range(MatchEnds(p, channel, 0))

\* The channel matches the inclusion pattern and, given -i, the whole of it
\* matches the exclusion pattern.
MatchesBoth(c, channel) ==
    /\ c.checkIgnore
    /\ FullMatches(c.channelsToIgnore, channel)
    /\ ReMatch(c.channelsToProcess, channel).matched

\* C3 as stated: a channel that matches both patterns never gets a key in
\* the store, and once a record was read on it the memo holds it, marked
\* None (filtered) rather than with a fingerprint.
C3_ExclusionWins ==
    \A c \in Channels :
        (logOpened /\ MatchesBoth(cmd, c)) =>
            /\ c \notin DOMAIN data.m
            /\ c \in history.channels =>
                   /\ c \in DOMAIN ignored_channels
                   /\ ignored_channels[c] = PyNone

\* C4 as stated: a channel on which a record of unregistered type was read
\* has no entry in the store, and the memo holds the channel with the
\* fingerprint that could not be resolved.
C4_UnknownChannelHasNoEntries ==
    \A c \in history.unknownOn :
        /\ c \notin DOMAIN data.m
        /\ c \in DOMAIN ignored_channels
        /\ ignored_channels[c].k = "bytes"
        /\ ignored_channels[c].b \notin DOMAIN TYPE_DB

\* The store holds the same for channel c before and after the step.
SameEntries(c) ==
    /\ (c \in DOMAIN data.m) <=> (c \in DOMAIN data'.m)
    /\ (c \in DOMAIN data.m) => data'.m[c] = data.m[c]

\* C4, amended: the record of unregistered type does not end the run and
\* adds nothing to the store; its channel is in the memo with the unresolved
\* fingerprint, no later step changes what the store holds for a channel in
\* the memo, and the store has nothing for the channel when no record was
\* decoded on it before.
C4_UnknownChannelGetsNoMoreEntries ==
    /\ [](\A c \in history.unknownOn :
              /\ c \in DOMAIN ignored_channels
              /\ ignored_channels[c].k = "bytes"
              /\ ignored_channels[c].b \notin DOMAIN TYPE_DB
              /\ accepted[c] = <<>> => c \notin DOMAIN data.m)
    /\ [][history'.unknownOn # history.unknownOn =>
              /\ pc' = "streaming"
              /\ data' = data
              /\ msgCount' = msgCount]_vars
    /\ [][\A c \in DOMAIN ignored_channels :
              /\ c \in DOMAIN ignored_channels'
              /\ ignored_channels'[c] = ignored_channels[c]
              /\ SameEntries(c)
              /\ accepted'[c] = accepted[c]]_vars

C4_Witness ==
    /\ Observable
    /\ history.unknownOn = {ChanC, ChanCD}
    /\ accepted[ChanC] # <<>> /\ ChanC \in DOMAIN data.m
    /\ accepted[ChanCD] = <<>> /\ ChanCD \notin DOMAIN data.m
    /\ ignored_channels[ChanC] = PyBytes(FpUnknown)

\* C5: a record whose decoder raises changes neither the store, the memo nor
\* the counter and does not end the run; when every record of the log is
\* either valid or undecodable the counter is the number of valid ones and
\* the memo is as it was seeded, so that records read later on the channel
\* are still decoded.
C5_DecodeFailureSkipsOneRecord ==
    /\ []((logOpened /\ history.other = 0) =>
              /\ msgCount = history.valid
              /\ DOMAIN ignored_channels = {LcmSelfTest})
    /\ [][history'.undecodable # history.undecodable =>
              /\ pc' = "streaming"
              /\ data' = data
              /\ ignored_channels' = ignored_channels
              /\ msgCount' = msgCount]_vars

C5_Witness ==
    /\ Observable
    /\ history.other = 0 /\ history.undecodable = 1 /\ history.valid = 2
    /\ msgCount = 2
    /\ \E f \in history.failures :
           /\ f.channel \in DOMAIN data.m
           /\ f.after = 1
           /\ Len(accepted[f.channel]) = 2

\* C6 as stated: no shape of a decoded field ends the run before the log
\* is read to its end.
C6_NoFieldShapeAborts == ~(pc = "aborted" /\ logOpened)

IsPrefix(s, t) == Len(s) <= Len(t) /\ SubSeq(t, 1, Len(s)) = s

\* Every key of old is a key of new, a column of old is the beginning of
\* the column of new, anything else is kept as it is.
RECURSIVE Grows(_, _)
Grows(old, new) ==
    IF old.k = "dict"
      THEN /\ new.k = "dict"
           /\ \A key \in DOMAIN old.m :
                  /\ key \in DOMAIN new.m
                  /\ Grows(old.m[key], new.m[key])
      ELSE IF old.k = "list"
        THEN new.k = "list" /\ IsPrefix(old.items, new.items)
        ELSE new = old

\* C7 as stated: what the store holds only grows while the log is read: no
\* step replaces or removes what an earlier message put there.
C7_StoreOnlyGrows == [][pc' \in {"streaming", "done"} => Grows(data, data')]_vars

\* The columns kept for the decoded messages m of a channel: their rebased
\* timestamps, the positive ones.
RECURSIVE RebasedPositive(_)
RebasedPositive(m) ==
    IF m = <<>>
      THEN <<>>
      ELSE LET t == Rebase(m[1].timestamp, startTime)
           IN  (IF GtZero(t) THEN <<t>> ELSE <<>>) \o RebasedPositive(Tail(m))

NonDecreasing(col) ==
    \A i \in 1..Len(col), j \in 1..Len(col) : i <= j => col[i].num <= col[j].num

RawNonDecreasing(m) ==
    \A i \in 1..Len(m), j \in 1..Len(m) : i <= j => m[i].timestamp <= m[j].timestamp

\* C8: startTime is the timestamp of the first decoded record, not of the
\* first record of the log, and is fixed from then on; a channel's
\* lcm_timestamp column holds, in order, the timestamps of its decoded
\* messages less startTime, in seconds, and is non-decreasing when the raw
\* timestamps are.
C8_TimeBaseIsFirstDecodedRecord ==
    /\ [](Observable =>
              \A c \in DOMAIN data.m :
                  /\ TimestampColumn(c) = RebasedPositive(accepted[c])
                  /\ RawNonDecreasing(accepted[c]) =>
                         NonDecreasing(TimestampColumn(c)))
    /\ [][(msgCount = 0 /\ msgCount' = 1) =>
              \E c \in Channels :
                  /\ Len(accepted'[c]) = 1
                  /\ accepted[c] = <<>>
                  /\ startTime' = accepted'[c][1].timestamp]_vars
    /\ [][msgCount >= 1 => startTime' = startTime]_vars

C8_Witness ==
    /\ Observable
    /\ msgCount = 2
    /\ history.first[1].timestamp # startTime
    /\ Len(accepted[ChanC]) = 2
    /\ TimestampColumn(ChanC) = <<PyFloat(Million, Million)>>

\* C9 as stated: a command line that cannot be configured prints the usage
\* text and exits with a status other than zero before the log is opened,
\* and a status of zero means the output was written (-h and -p, which are
\* asked to write none, set aside).
C9_ConfigErrorExitsNonzero ==
    /\ (pc = "usage_exit" /\ ConfigurationError(cmd)) =>
           /\ usagePrinted
           /\ exitStatus # 0
           /\ ~logOpened
    /\ (/\ pc \in {"usage_exit", "aborted", "done"}
        /\ exitStatus = 0
        /\ ~cmd.help /\ ~cmd.printOutput) =>
           outputWritten

\* The keys of the dictionaries at every level of a value.
RECURSIVE KeysOf(_)
KeysOf(v) ==
    IF v.k = "dict"
      THEN DOMAIN v.m \cup UNION {KeysOf(v.m[key]) : key \in DOMAIN v.m}
      ELSE IF v.k \in {"list", "tuple"}
        THEN UNION {KeysOf(v.items[i]) : i \in 1..Len(v.items)}
        ELSE {}

\* C10 as stated: no key of the store, at any level, is longer than 31
\* characters.
C10_KeysAtMost31 == Observable => \A key \in KeysOf(data) : Len(key) <= KeyLen


\* The entries of a dictionary that are single values are
\* those of old, at every level.
RECURSIVE SingleValuesKept(_, _)
SingleValuesKept(old, new) ==
    \A key \in DOMAIN old.m :
        /\ key \in DOMAIN new.m
        /\ IF old.m[key].k = "dict"
             THEN new.m[key].k = "dict" /\ SingleValuesKept(old.m[key], new.m[key])
             ELSE old.m[key].k \in {"list", "tuple"} \/ new.m[key] = old.m[key]

\* The constants of msg are in the dictionary node, as their values.
HoldsConstantsOf(node, msg) ==
    \A i \in 1..Len(MsgGetConstants(msg)) :
        /\ Trunc(MsgGetConstants(msg)[i]) \in DOMAIN node.m
        /\ node.m[Trunc(MsgGetConstants(msg)[i])] =
               GetAttr(msg, MsgGetConstants(msg)[i])

\* The decoded messages of channel c that have a nested message in field.
WithNested(c, field) ==
    SelectSeq(accepted[c],
              LAMBDA a : /\ field \in Range(MsgGetFields(a.msg))
                         /\ HasSlots(GetAttr(a.msg, field)))

\* C11: the entry of a channel holds the constants of the first message
\* decoded on it, the entry of a nested message those of the first message
\* nested there, each as a single value, and no later step appends to or
\* rewrites a single value of the store.
C11_ConstantsWrittenOnce ==
    /\ [](Observable =>
              \A c \in DOMAIN data.m :
                  /\ accepted[c] # <<>>
                  /\ HoldsConstantsOf(data.m[c], accepted[c][1].msg)
                  /\ \A field \in {NamePos} :
                         WithNested(c, field) # <<>> =>
                             /\ Trunc(field) \in DOMAIN data.m[c].m
                             /\ HoldsConstantsOf(
                                    data.m[c].m[Trunc(field)],
                                    GetAttr(WithNested(c, field)[1].msg, field)))
    /\ [][pc' \in {"streaming", "done"} => SingleValuesKept(data, data')]_vars

C11_Witness ==
    /\ Observable
    /\ Len(accepted[ChanC]) = 2
    /\ accepted[ChanC][1].msg.cls = "track_t"
    /\ accepted[ChanC][2].msg.cls = "pose_t"
    /\ data.m[ChanC].m[Trunc(NameLongConst)] = PyInt(9)
    /\ data.m[ChanC].m[NamePos].m[Trunc(NameLongConst)] = PyInt(3)

\* C12 as stated: the run ends with the store and the counter of the engine
\* that has no memo and puts every record to the filter and the lookup.
C12_MemoIsOptimization ==
    pc = "done" =>
        /\ ref.ok
        /\ data = ref.data
        /\ msgCount = ref.msgCount

\* No channel that passes the filter carried both a registered and an
\* unregistered fingerprint.
StableChannels == history.unknownOn \cap history.knownOn = {}

\* C12, amended: when no channel carried both registered and unregistered
\* fingerprints, the store, the counter and startTime are, after every
\* record and at the end, those of the engine without the memo (which keeps
\* the fixed entry for LCM_SELF_TEST), and a run ends by an exception just
\* when that engine's does.
C12_MemoIsOptimizationOnStableChannels ==
    (logOpened /\ StableChannels) =>
        /\ ref.ok <=> pc # "aborted"
        /\ Observable =>
               /\ data = ref.data
               /\ msgCount = ref.msgCount
               /\ startTime = ref.startTime

C12_Witness ==
    /\ pc = "done"
    /\ StableChannels
    /\ history.channels = {ChanC, ChanCD}
    /\ history.unknownOn = {ChanCD}
    /\ history.other = 2
    /\ Len(accepted[ChanC]) = 1
    /\ ChanC \in DOMAIN ref.data.m
    /\ ref.msgCount = 1

\* The memo holds the channel as filtered.
MemoFiltered(channel) ==
    /\ channel \in DOMAIN ignored_channels
    /\ ignored_channels[channel] = PyNone

\* The pattern matches at the start of the channel name.
MatchesAtStart(p, channel) == MatchEnds(p, channel, 0) # <<>>

\* C13: of the channels records were read on, one that the inclusion
\* pattern matches at its start is filtered only if -i was given and its
\* pattern matches the whole name; one of which the exclusion pattern
\* matches a proper prefix only is not filtered for it; one the inclusion
\* pattern does not match at the start is filtered.
C13_ExclusionNeedsWholeName ==
    logOpened =>
        \A c \in history.channels \ {LcmSelfTest} :
            /\ (MemoFiltered(c) /\ MatchesAtStart(cmd.channelsToProcess, c)) =>
                   /\ cmd.checkIgnore
                   /\ FullMatches(cmd.channelsToIgnore, c)
            /\ (/\ MatchesAtStart(cmd.channelsToProcess, c)
                /\ MatchesAtStart(cmd.channelsToIgnore, c)
                /\ ~FullMatches(cmd.channelsToIgnore, c)) =>
                   ~MemoFiltered(c)
            /\ ~MatchesAtStart(cmd.channelsToProcess, c) => MemoFiltered(c)

C13_Witness ==
    /\ Observable
    /\ cmd = CmdOnlyC
    /\ MemoFiltered(ChanC)
    /\ MemoFiltered(ChanLong)
    /\ ~FullMatches(cmd.channelsToProcess, ChanCD)
    /\ ChanCD \in DOMAIN data.m

\* C14 as stated: when the run has ended, by the end of the log or by a
\* failure, no file that was opened is left open.
C14_NothingLeftOpen == pc \in {"done", "aborted"} => openFiles = {}

\* C15: a step that reads a record and does not decode it changes neither
\* the store nor the counter and does not end the run; no step changes or
\* removes an entry of the memo; a step adds at most the one channel of its
\* record, as None when the filter rejects that channel and as the
\* fingerprint when its type is unknown, and then nothing is decoded.
C15_SkippedRecordChangesNothing ==
    /\ [][(/\ nread' = nread + 1
           /\ history'.valid = history.valid \/ accepted' = accepted) =>
              /\ data' = data
              /\ msgCount' = msgCount
              /\ pc' = pc]_vars
    /\ [][logOpened =>
              \A c \in DOMAIN ignored_channels :
                  /\ c \in DOMAIN ignored_channels'
                  /\ ignored_channels'[c] = ignored_channels[c]]_vars
    /\ [][logOpened =>
              \A c \in DOMAIN ignored_channels' \ DOMAIN ignored_channels :
                  /\ DOMAIN ignored_channels' = DOMAIN ignored_channels \cup {c}
                  /\ nread' = nread + 1
                  /\ accepted' = accepted
                  /\ history'.valid = history.valid
                  /\ \/ /\ ignored_channels'[c] = PyNone
                        /\ FilterTest(cmd, c)
                        /\ c \in history'.channels \ history.channels
                     \/ /\ ignored_channels'[c].k = "bytes"
                        /\ c \in history'.unknownOn \ history.unknownOn]_vars

C15_Witness ==
    /\ pc = "streaming"
    /\ nread = 3
    /\ cmd = CmdOnlyC
    /\ history.channels = {LcmSelfTest, ChanC, ChanCD}
    /\ MemoFiltered(ChanC)
    /\ history.unknownOn = {ChanCD}
    /\ DOMAIN ignored_channels = {LcmSelfTest, ChanC, ChanCD}
    /\ data = EmptyDict
    /\ msgCount = 0

\* C16: the store has a key for a channel just when a message was decoded
\* on it; such a channel is not LCM_SELF_TEST, passes the filter and had a
\* record with a registered fingerprint; and with no record that is valid
\* the store is empty.
C16_KeyIffDecoded ==
    Observable =>
        /\ DOMAIN data.m \subseteq Channels
        /\ \A c \in Channels :
               /\ c \in DOMAIN data.m <=> accepted[c] # <<>>
               /\ c \in DOMAIN data.m =>
                      /\ c # LcmSelfTest
                      /\ ~FilterTest(cmd, c)
                      /\ c \in history.knownOn
        /\ history.valid = 0 => data = EmptyDict

C16_Witness ==
    /\ pc = "done"
    /\ nread = 3
    /\ history.channels = {ChanC, ChanCD}
    /\ history.unknownOn = {ChanCD}
    /\ history.undecodable = 1
    /\ DOMAIN data.m = {ChanC}
    /\ ChanCD \in DOMAIN ignored_channels

\* C17: from the opening of the log the memo holds LCM_SELF_TEST with its
\* fixed entry, nothing is decoded or stored for it, and the number of
\* ignored channels the summary gives is one more than the number of
\* channels read that the filter rejects or whose type is unknown.
C17_SelfTestAlwaysIgnored ==
    logOpened =>
        /\ LcmSelfTest \in DOMAIN ignored_channels
        /\ ignored_channels[LcmSelfTest] = PyBytes("lcm self")
        /\ accepted[LcmSelfTest] = <<>>
        /\ LcmSelfTest \notin DOMAIN data.m
        /\ SummaryCount =
               1 + Cardinality({c \in history.channels \ {LcmSelfTest} :
                                   FilterTest(cmd, c) \/ c \in history.unknownOn})

C17_Witness ==
    /\ pc = "done"
    /\ history.first # <<>>
    /\ history.first[1].channel = LcmSelfTest
    /\ history.first[1].known /\ history.first[1].decodes
    /\ history.channels = {LcmSelfTest, ChanC}
    /\ history.unknownOn = {ChanC}
    /\ SummaryPrinted
    /\ SummaryCount = 2
    /\ data = EmptyDict

=============================================================================
